---- MODULE Spec2Model ----
(***************************************************************************)
(* A model of the JSON formatter: the formatter and validator of           *)
(* utils/jsonFormatter (formatJson, minifyJson, validateJson, parseJson)   *)
(* and the converters of utils/converters (jsonToXml, jsonToCsv,           *)
(* jsonToYaml).  A text is a sequence of characters, a character a         *)
(* one-character string.  JSON.parse and JSON.stringify, on which the code *)
(* rests, are modelled on characters: a parser that reports the offset at  *)
(* which it fails, and a serializer.                                       *)
(***************************************************************************)
EXTENDS Integers, Sequences, FiniteSets, TLC

VARIABLES input, op, result, doc

\* The state of the page: the useState hooks of Home, the content the output
\* editor is rendered with, the pending timers of showNotification and the
\* last call of downloadFile.
VARIABLES inputJson, outputJson, activeTab, notification, viewer, timers, download

\* The page's layout state (useState), and what the page has asked of the
\* browser: the fetch calls of handleLoadUrl and the text given to the clipboard.
VARIABLES isInputMinimized, isOutputMinimized, isWideMode, fullscreenPanel
VARIABLES fetches, clipboard

callVars == <<input, op, result, doc>>

pageVars == <<inputJson, outputJson, activeTab, notification, viewer, timers, download>>

layoutVars == <<isInputMinimized, isOutputMinimized, isWideMode, fullscreenPanel>>

browserVars == <<fetches, clipboard>>

vars == <<input, op, result, doc,
          inputJson, outputJson, activeTab, notification, viewer, timers, download,
          isInputMinimized, isOutputMinimized, isWideMode, fullscreenPanel,
          fetches, clipboard>>

(***************************************************************************)
(* Characters.                                                             *)
(***************************************************************************)
QUOTE == "\""
BSLASH == "\\"
NL == "\n"
TAB == "\t"
CR == "\r"
FF == "\f"
SP == " "

Digits == {"0", "1", "2", "3", "4", "5", "6", "7", "8", "9"}

DigitVal(c) ==
    CASE c = "0" -> 0 [] c = "1" -> 1 [] c = "2" -> 2 [] c = "3" -> 3
      [] c = "4" -> 4 [] c = "5" -> 5 [] c = "6" -> 6 [] c = "7" -> 7
      [] c = "8" -> 8 [] c = "9" -> 9

DigitChar(d) ==
    CASE d = 0 -> "0" [] d = 1 -> "1" [] d = 2 -> "2" [] d = 3 -> "3"
      [] d = 4 -> "4" [] d = 5 -> "5" [] d = 6 -> "6" [] d = 7 -> "7"
      [] d = 8 -> "8" [] d = 9 -> "9"

\* The white space JSON.parse skips between tokens.
JsonWs == {SP, TAB, NL, CR}

\* The white space String.prototype.trim strips (of the characters modelled).
TrimWs == {SP, TAB, NL, CR, FF}

\* Characters that may not appear raw inside a JSON string literal.
ControlChars == {NL, TAB, CR, FF}

(***************************************************************************)
(* Sequence helpers.                                                       *)
(***************************************************************************)
RECURSIVE Join(_, _)
\* Array.prototype.join: the texts of parts, sep between each two.
Join(parts, sep) ==
    IF parts = <<>> THEN <<>>
    ELSE IF Len(parts) = 1 THEN parts[1]
    ELSE parts[1] \o sep \o Join(Tail(parts), sep)

RECURSIVE SplitFrom(_, _, _, _)
SplitFrom(s, c, i, cur) ==
    IF i > Len(s) THEN <<cur>>
    ELSE IF s[i] = c THEN <<cur>> \o SplitFrom(s, c, i + 1, <<>>)
    ELSE SplitFrom(s, c, i + 1, Append(cur, s[i]))

\* String.prototype.split on a one-character separator.
Split(s, c) == SplitFrom(s, c, 1, <<>>)

\* String.prototype.includes for a one-character needle.
Includes(s, c) == \E i \in 1..Len(s) : s[i] = c

RECURSIVE Repeat(_, _)
\* String.prototype.repeat.
Repeat(s, n) == IF n <= 0 THEN <<>> ELSE s \o Repeat(s, n - 1)

RECURSIVE TrimStart(_)
TrimStart(s) == IF s # <<>> /\ Head(s) \in TrimWs THEN TrimStart(Tail(s)) ELSE s

RECURSIVE TrimEnd(_)
TrimEnd(s) ==
    IF s # <<>> /\ s[Len(s)] \in TrimWs THEN TrimEnd(SubSeq(s, 1, Len(s) - 1)) ELSE s

\* String.prototype.trim.
Trim(s) == TrimEnd(TrimStart(s))

(***************************************************************************)
(* JavaScript values.  An object holds its properties in the order         *)
(* JavaScript enumerates them; a number is the decimal m * 10^e with m not *)
(* a multiple of ten, or an infinity.  Zero has one representation: value  *)
(* equality is that of ===, under which -0 and 0 are the same number.      *)
(***************************************************************************)
JNull == [t |-> "null"]
Undefined == [t |-> "undefined"]
JBool(b) == [t |-> "bool", b |-> b]
JStr(s) == [t |-> "str", s |-> s]
JArr(a) == [t |-> "arr", a |-> a]
JObj(o) == [t |-> "obj", o |-> o]
JNum(neg, m, e) == [t |-> "num", fin |-> TRUE, neg |-> neg, m |-> m, e |-> e]
JInf(neg) == [t |-> "num", fin |-> FALSE, neg |-> neg, m |-> 0, e |-> 0]
JZero == JNum(FALSE, 0, 0)

(***************************************************************************)
(* Numbers: the conversion of a decimal literal to a double (JSON.parse)   *)
(* and of a double to text (Number::toString).  A literal of up to nine    *)
(* significant digits converts to the double nearest to it, which prints   *)
(* as the same decimal, so within the double's range the decimal stands    *)
(* for the double.  Out of range the literal converts to an infinity (at   *)
(* or above 1.7976931348623158e308) or to zero (below 1e-324).             *)
(***************************************************************************)
RECURSIVE Pow10(_)
Pow10(k) == IF k <= 0 THEN 1 ELSE 10 * Pow10(k - 1)

RECURSIVE NumDigits(_)
NumDigits(m) == IF m < 10 THEN 1 ELSE 1 + NumDigits(m \div 10)

RECURSIVE StripZeros(_, _)
\* m * 10^e with the trailing zeros of m moved into e.
StripZeros(m, e) ==
    IF m # 0 /\ m % 10 = 0 THEN StripZeros(m \div 10, e + 1) ELSE <<m, e>>

\* The double a decimal literal (-1)^neg * m * 10^e denotes.
ToDouble(neg, m, e) ==
    IF m = 0 THEN JZero
    ELSE LET n == StripZeros(m, e)
             k == NumDigits(n[1])
             x == k + n[2] - 1
         IN  IF x > 308 \/ (x = 308 /\ n[1] * Pow10(9 - k) >= 179769314)
             THEN JInf(neg)
             ELSE IF x < -324 THEN JZero
             ELSE JNum(neg, n[1], n[2])

RECURSIVE IntToDigits(_)
\* The decimal digits of a natural number.
IntToDigits(m) ==
    IF m < 10 THEN <<DigitChar(m)>>
    ELSE Append(IntToDigits(m \div 10), DigitChar(m % 10))

\* Number::toString of a finite positive m * 10^e (ECMA-262, radix 10): with k
\* digits and the decimal point after the n-th, plain digits when 0 < n <= 21,
\* a leading "0." when -6 < n <= 0, exponent form otherwise.
PositiveToString(m, e) ==
    LET ds == IntToDigits(m)
        k == Len(ds)
        n == k + e
        x == n - 1
        ex == <<"e", IF x < 0 THEN "-" ELSE "+">> \o IntToDigits(IF x < 0 THEN -x ELSE x)
    IN  IF k <= n /\ n <= 21 THEN ds \o Repeat(<<"0">>, n - k)
        ELSE IF 0 < n /\ n <= 21 THEN SubSeq(ds, 1, n) \o <<".">> \o SubSeq(ds, n + 1, k)
        ELSE IF -6 < n /\ n <= 0 THEN <<"0", ".">> \o Repeat(<<"0">>, -n) \o ds
        ELSE IF k = 1 THEN ds \o ex
        ELSE <<ds[1], ".">> \o SubSeq(ds, 2, k) \o ex

\* Number::toString.
NumberToString(v) ==
    IF ~v.fin THEN (IF v.neg THEN <<"-">> ELSE <<>>) \o <<"I", "n", "f", "i", "n", "i", "t", "y">>
    ELSE IF v.m = 0 THEN <<"0">>
    ELSE (IF v.neg THEN <<"-">> ELSE <<>>) \o PositiveToString(v.m, v.e)

(***************************************************************************)
(* Objects: property order.  JavaScript enumerates the properties that are *)
(* array indices first, in ascending numeric order, and then the other     *)
(* string keys in the order of their creation; assigning to an existing    *)
(* key keeps its place.                                                    *)
(***************************************************************************)
RECURSIVE DigitsLess(_, _)
\* Numeric order of two digit strings without leading zeros.
DigitsLess(a, b) ==
    IF Len(a) # Len(b) THEN Len(a) < Len(b)
    ELSE IF a = <<>> THEN FALSE
    ELSE IF a[1] # b[1] THEN DigitVal(a[1]) < DigitVal(b[1])
    ELSE DigitsLess(Tail(a), Tail(b))

\* An array index: the canonical decimal string of an integer below 2^32 - 1.
IsArrayIndex(key) ==
    /\ key # <<>>
    /\ \A i \in 1..Len(key) : key[i] \in Digits
    /\ (Len(key) = 1 \/ key[1] # "0")
    /\ DigitsLess(key, <<"4", "2", "9", "4", "9", "6", "7", "2", "9", "5">>)

HasKey(o, key) == \E i \in 1..Len(o) : o[i].k = key

\* obj[key], undefined when obj has no such property.
GetProp(o, key) ==
    IF HasKey(o, key) THEN o[CHOOSE i \in 1..Len(o) : o[i].k = key].v ELSE Undefined

\* The number of properties enumerated before a new key.
InsertPoint(o, key) ==
    IF IsArrayIndex(key)
    THEN Cardinality({i \in 1..Len(o) : IsArrayIndex(o[i].k) /\ DigitsLess(o[i].k, key)})
    ELSE Len(o)

\* The properties after obj[key] = v.
SetProp(o, key, v) ==
    IF HasKey(o, key)
    THEN [i \in 1..Len(o) |-> IF o[i].k = key THEN [k |-> key, v |-> v] ELSE o[i]]
    ELSE LET p == InsertPoint(o, key)
         IN  SubSeq(o, 1, p) \o <<[k |-> key, v |-> v]>> \o SubSeq(o, p + 1, Len(o))

\* Object.keys.
ObjectKeys(o) == [i \in 1..Len(o) |-> o[i].k]

(***************************************************************************)
(* JSON.parse.  A parse step returns [ok, v, i]: on success the value and  *)
(* the index after it, on failure the index of the character that cannot   *)
(* continue a JSON text (Len + 1 at the end of the input).  Indices are    *)
(* 1-based; the offset a diagnostic reports is the index - 1.              *)
(***************************************************************************)
Ok(v, i) == [ok |-> TRUE, v |-> v, i |-> i]
Fail(i) == [ok |-> FALSE, v |-> Undefined, i |-> i]

RECURSIVE SkipWs(_, _)
SkipWs(s, i) == IF i <= Len(s) /\ s[i] \in JsonWs THEN SkipWs(s, i + 1) ELSE i

RECURSIVE ScanLiteral(_, _, _, _, _)
\* The rest of true, false or null.
ScanLiteral(s, i, lit, j, v) ==
    IF j > Len(lit) THEN Ok(v, i)
    ELSE IF i > Len(s) \/ s[i] # lit[j] THEN Fail(i)
    ELSE ScanLiteral(s, i + 1, lit, j + 1, v)

\* The escapes \" \\ \/ \n \t \r \f; \b and \uXXXX are not among the inputs.
EscapeChars == {QUOTE, BSLASH, "/", "n", "t", "r", "f"}

Unescape(c) ==
    CASE c = "n" -> NL [] c = "t" -> TAB [] c = "r" -> CR [] c = "f" -> FF
      [] OTHER -> c

RECURSIVE ScanString(_, _, _)
\* A string literal's contents, from the character after its opening quote.
ScanString(s, i, acc) ==
    IF i > Len(s) THEN Fail(i)
    ELSE IF s[i] = QUOTE THEN Ok(JStr(acc), i + 1)
    ELSE IF s[i] = BSLASH
         THEN IF i + 1 <= Len(s) /\ s[i + 1] \in EscapeChars
              THEN ScanString(s, i + 2, Append(acc, Unescape(s[i + 1])))
              ELSE Fail(i + 1)
    ELSE IF s[i] \in ControlChars THEN Fail(i)
    ELSE ScanString(s, i + 1, Append(acc, s[i]))

RECURSIVE ScanDigits(_, _, _, _)
\* A run of digits: <<its value, the index after it, its length>>.
ScanDigits(s, i, acc, n) ==
    IF i <= Len(s) /\ s[i] \in Digits
    THEN ScanDigits(s, i + 1, 10 * acc + DigitVal(s[i]), n + 1)
    ELSE <<acc, i, n>>

\* The number whose digits have been scanned: int, frac and exp are the runs
\* of digits <<value, index after, length>> of its three parts.
NumberOf(neg, int, frac, signChar, exp) ==
    ToDouble(neg, int[1] * Pow10(frac[3]) + frac[1],
             (IF signChar = "-" THEN -exp[1] ELSE exp[1]) - frac[3])

\* The exponent of a number, l the index after its integer and fraction.
ScanExponent(s, l, neg, int, frac) ==
    IF l <= Len(s) /\ s[l] \in {"e", "E"}
    THEN LET signed == l + 1 <= Len(s) /\ s[l + 1] \in {"+", "-"}
             exp == ScanDigits(s, IF signed THEN l + 2 ELSE l + 1, 0, 0)
         IN  IF exp[3] = 0 THEN Fail(exp[2])
             ELSE Ok(NumberOf(neg, int, frac, IF signed THEN s[l + 1] ELSE "+", exp), exp[2])
    ELSE Ok(NumberOf(neg, int, frac, "+", <<0, l, 0>>), l)

\* The fraction of a number, k the index after its integer part.
ScanFraction(s, k, neg, int) ==
    IF k <= Len(s) /\ s[k] = "."
    THEN LET frac == ScanDigits(s, k + 1, 0, 0)
         IN  IF frac[3] = 0 THEN Fail(k + 1) ELSE ScanExponent(s, frac[2], neg, int, frac)
    ELSE ScanExponent(s, k, neg, int, <<0, k, 0>>)

\* -? (0 | [1-9][0-9]*) (. [0-9]+)? ([eE] [+-]? [0-9]+)?
ScanNumber(s, i) ==
    LET neg == s[i] = "-"
        j == IF neg THEN i + 1 ELSE i
    IN  IF j > Len(s) \/ s[j] \notin Digits THEN Fail(j)
        ELSE LET int == IF s[j] = "0" THEN <<0, j + 1, 1>> ELSE ScanDigits(s, j, 0, 0)
             IN  ScanFraction(s, int[2], neg, int)

RECURSIVE ParseValue(_, _)
RECURSIVE ParseElements(_, _, _)
RECURSIVE ParseMembers(_, _, _)
RECURSIVE AfterElement(_, _, _)
RECURSIVE AfterMember(_, _, _, _)
RECURSIVE AfterKey(_, _, _)

\* The value that starts at index i (white space skipped by the caller).
ParseValue(s, i) ==
    IF i > Len(s) THEN Fail(i)
    ELSE CASE s[i] = "{" -> ParseMembers(s, SkipWs(s, i + 1), <<>>)
           [] s[i] = "[" -> ParseElements(s, SkipWs(s, i + 1), <<>>)
           [] s[i] = QUOTE -> ScanString(s, i + 1, <<>>)
           [] s[i] = "-" \/ s[i] \in Digits -> ScanNumber(s, i)
           [] s[i] = "t" -> ScanLiteral(s, i + 1, <<"r", "u", "e">>, 1, JBool(TRUE))
           [] s[i] = "f" -> ScanLiteral(s, i + 1, <<"a", "l", "s", "e">>, 1, JBool(FALSE))
           [] s[i] = "n" -> ScanLiteral(s, i + 1, <<"u", "l", "l">>, 1, JNull)
           [] OTHER -> Fail(i)

\* What follows the element r of an array: a comma and the next element, or
\* the closing bracket.
AfterElement(s, r, acc) ==
    LET k == SkipWs(s, r.i)
    IN  IF ~r.ok THEN r
        ELSE IF k > Len(s) THEN Fail(k)
        ELSE IF s[k] = "," THEN ParseElements(s, SkipWs(s, k + 1), Append(acc, r.v))
        ELSE IF s[k] = "]" THEN Ok(JArr(Append(acc, r.v)), k + 1)
        ELSE Fail(k)

\* The elements of an array from index i, acc holding those before: none when
\* the array closes at once, else a value and what follows it.
ParseElements(s, i, acc) ==
    IF acc = <<>> /\ i <= Len(s) /\ s[i] = "]" THEN Ok(JArr(<<>>), i + 1)
    ELSE AfterElement(s, ParseValue(s, i), acc)

\* What follows the value r of the member key of an object: a comma and the
\* next member, or the closing brace.
AfterMember(s, key, r, o) ==
    LET k == SkipWs(s, r.i)
    IN  IF ~r.ok THEN r
        ELSE IF k > Len(s) THEN Fail(k)
        ELSE IF s[k] = "," THEN ParseMembers(s, SkipWs(s, k + 1), SetProp(o, key, r.v))
        ELSE IF s[k] = "}" THEN Ok(JObj(SetProp(o, key, r.v)), k + 1)
        ELSE Fail(k)

\* The colon and the value after a member's key.
AfterKey(s, key, o) ==
    LET c == SkipWs(s, key.i)
    IN  IF ~key.ok THEN key
        ELSE IF c > Len(s) \/ s[c] # ":" THEN Fail(c)
        ELSE AfterMember(s, key.v.s, ParseValue(s, SkipWs(s, c + 1)), o)

\* The members of an object from index i, o holding the properties so far: none
\* when the object closes at once, else a quoted key and what follows it.
ParseMembers(s, i, o) ==
    IF o = <<>> /\ i <= Len(s) /\ s[i] = "}" THEN Ok(JObj(<<>>), i + 1)
    ELSE IF i > Len(s) \/ s[i] # QUOTE THEN Fail(i)
    ELSE AfterKey(s, ScanString(s, i + 1, <<>>), o)

\* Nothing but white space may follow the value.
EndOfText(s, r) ==
    LET k == SkipWs(s, r.i) IN IF r.ok /\ k <= Len(s) THEN Fail(k) ELSE r

\* JSON.parse: one value, white space around it, nothing after it.
JSONparse(s) == EndOfText(s, ParseValue(s, SkipWs(s, 1)))

(***************************************************************************)
(* JSON.stringify(value, null, spaces).                                    *)
(***************************************************************************)
EscapeJsonChar(c) ==
    CASE c = QUOTE -> <<BSLASH, QUOTE>>
      [] c = BSLASH -> <<BSLASH, BSLASH>>
      [] c = NL -> <<BSLASH, "n">>
      [] c = TAB -> <<BSLASH, "t">>
      [] c = CR -> <<BSLASH, "r">>
      [] c = FF -> <<BSLASH, "f">>
      [] OTHER -> <<c>>

RECURSIVE EscapeJsonChars(_)
EscapeJsonChars(s) ==
    IF s = <<>> THEN <<>> ELSE EscapeJsonChar(Head(s)) \o EscapeJsonChars(Tail(s))

\* QuoteJSONString: the string literal that denotes s.
QuoteJson(s) == <<QUOTE>> \o EscapeJsonChars(s) \o <<QUOTE>>

RECURSIVE Serialize(_, _, _)
\* SerializeJSONProperty: the text of v, gap the indent unit and ind the
\* indent of the line v starts on.  A number that is not finite becomes null.
Serialize(v, gap, ind) ==
    LET inner == ind \o gap
        open == IF gap = <<>> THEN <<>> ELSE <<NL>> \o inner
        sep == IF gap = <<>> THEN <<",">> ELSE <<",", NL>> \o inner
        close == IF gap = <<>> THEN <<>> ELSE <<NL>> \o ind
        colon == IF gap = <<>> THEN <<":">> ELSE <<":", SP>>
    IN  CASE v.t = "null" -> <<"n", "u", "l", "l">>
          [] v.t = "bool" -> IF v.b THEN <<"t", "r", "u", "e">> ELSE <<"f", "a", "l", "s", "e">>
          [] v.t = "num" -> IF v.fin THEN NumberToString(v) ELSE <<"n", "u", "l", "l">>
          [] v.t = "str" -> QuoteJson(v.s)
          [] v.t = "arr" ->
               IF v.a = <<>> THEN <<"[", "]">>
               ELSE <<"[">> \o open
                    \o Join([i \in 1..Len(v.a) |-> Serialize(v.a[i], gap, inner)], sep)
                    \o close \o <<"]">>
          [] v.t = "obj" ->
               IF v.o = <<>> THEN <<"{", "}">>
               ELSE <<"{">> \o open
                    \o Join([i \in 1..Len(v.o) |->
                               QuoteJson(v.o[i].k) \o colon \o Serialize(v.o[i].v, gap, inner)],
                            sep)
                    \o close \o <<"}">>

\* JSON.stringify(value, null, spaces); spaces is clamped to ten.
JSONstringify(v, spaces) ==
    Serialize(v, Repeat(<<SP>>, IF spaces > 10 THEN 10 ELSE spaces), <<>>)

(***************************************************************************)
(* utils/jsonFormatter.  A result carries every field of FormatResult and  *)
(* ValidationResult: an absent error is "", absent line and column are 0   *)
(* with hasPos FALSE.  parses counts the calls of JSON.parse; offset is    *)
(* the 0-based offset at which the parse failed (-1 when it did not) and   *)
(* msgPos the N of "position N" in the error's message (-1 without one).   *)
(***************************************************************************)
NoResult ==
    [formatted |-> <<>>, error |-> "", valid |-> FALSE, hasPos |-> FALSE,
     line |-> 0, column |-> 0, parses |-> 0, offset |-> -1, msgPos |-> -1]

\* The message of the SyntaxError JSON.parse throws, whatever its wording.
SyntaxErrorMessage == "SyntaxError"

\* What formatJson and minifyJson return for the outcome of JSON.parse.
Formatted(parsed, spaces) ==
    IF parsed.ok
    THEN [NoResult EXCEPT !.formatted = JSONstringify(parsed.v, spaces), !.parses = 1]
    ELSE [NoResult EXCEPT !.error = SyntaxErrorMessage, !.parses = 1,
                          !.offset = parsed.i - 1]

formatJson(text, spaces) ==
    IF Trim(text) = <<>>
    THEN [NoResult EXCEPT !.error = "Input is empty"]
    ELSE Formatted(JSONparse(text), spaces)

minifyJson(text) ==
    IF Trim(text) = <<>>
    THEN [NoResult EXCEPT !.error = "Input is empty"]
    ELSE Formatted(JSONparse(text), 0)

\* Validated with the column counted from 0.
ValidatedColumnFromZero(text, parsed, reportsPosition) ==
    IF parsed.ok
    THEN [NoResult EXCEPT !.valid = TRUE, !.parses = 1]
    ELSE LET position == IF reportsPosition THEN parsed.i - 1 ELSE 0
             lines == Split(SubSeq(text, 1, position), NL)
         IN  [NoResult EXCEPT !.error = SyntaxErrorMessage, !.parses = 1,
                              !.offset = parsed.i - 1, !.hasPos = TRUE,
                              !.msgPos = IF reportsPosition THEN position ELSE -1,
                              !.line = Len(lines),
                              !.column = Len(lines[Len(lines)])]

\* What validateJson returns for the outcome of JSON.parse: valid, or the
\* error with the line and column of position, the N of "position N" in the
\* message and 0 when the message holds none.
Validated(text, parsed, reportsPosition) ==
    IF parsed.ok
    THEN [NoResult EXCEPT !.valid = TRUE, !.parses = 1]
    ELSE LET position == IF reportsPosition THEN parsed.i - 1 ELSE 0
             lines == Split(SubSeq(text, 1, position), NL)
         IN  [NoResult EXCEPT !.error = SyntaxErrorMessage, !.parses = 1,
                              !.offset = parsed.i - 1, !.hasPos = TRUE,
                              !.msgPos = IF reportsPosition THEN position ELSE -1,
                              !.line = Len(lines),
                              !.column = Len(lines[Len(lines)]) + 1]

\* validateJson testing the text for emptiness without trimming it.
validateJsonUntrimmed(text, reportsPosition) ==
    IF text = <<>>
    THEN [NoResult EXCEPT !.error = "Input is empty"]
    ELSE Validated(text, JSONparse(text), reportsPosition)

\* validateJson.  Whether the engine's message holds "position N" depends on
\* the engine and on the kind of error: reportsPosition is that choice.
validateJson(text, reportsPosition) ==
    IF Trim(text) = <<>>
    THEN [NoResult EXCEPT !.error = "Input is empty"]
    ELSE Validated(text, JSONparse(text), reportsPosition)

\* What parseJson makes of the outcome of JSON.parse.
ValueOrNull(parsed) == IF parsed.ok THEN parsed.v ELSE JNull

\* parseJson: the parsed value, null when the text does not parse.
parseJson(text) == ValueOrNull(JSONparse(text))

(***************************************************************************)
(* utils/converters.  A converter returns a text or throws an Error with a *)
(* message.                                                                *)
(***************************************************************************)
Returned(out) == [threw |-> FALSE, out |-> out, error |-> ""]
Thrown(message) == [threw |-> TRUE, out |-> <<>>, error |-> message]

\* !v: the values JavaScript takes for false.
Falsy(v) ==
    \/ v.t \in {"null", "undefined"}
    \/ v.t = "bool" /\ ~v.b
    \/ v.t = "num" /\ v.fin /\ v.m = 0
    \/ v.t = "str" /\ v.s = <<>>

\* typeof v === 'object' && v !== null.
IsObjectLike(v) == v.t \in {"arr", "obj"}

\* String(v) of a value that is not an object.
StringOf(v) ==
    CASE v.t = "null" -> <<"n", "u", "l", "l">>
      [] v.t = "undefined" -> <<"u", "n", "d", "e", "f", "i", "n", "e", "d">>
      [] v.t = "bool" -> IF v.b THEN <<"t", "r", "u", "e">> ELSE <<"f", "a", "l", "s", "e">>
      [] v.t = "num" -> NumberToString(v)
      [] v.t = "str" -> v.s

\* The converters' first line: a string argument is parsed, any other value
\* is taken as it is.
ParseArgument(json) == IF json.t = "str" THEN parseJson(json.s) ELSE json

RECURSIVE ReplaceAll(_, _, _)
\* str.replace(/c/g, rep) for a one-character pattern.
ReplaceAll(s, c, rep) ==
    IF s = <<>> THEN <<>>
    ELSE (IF Head(s) = c THEN rep ELSE <<Head(s)>>) \o ReplaceAll(Tail(s), c, rep)

escapeXml(str) ==
    LET amp == ReplaceAll(str, "&", <<"&", "a", "m", "p", ";">>)
        lt == ReplaceAll(amp, "<", <<"&", "l", "t", ";">>)
        gt == ReplaceAll(lt, ">", <<"&", "g", "t", ";">>)
        quot == ReplaceAll(gt, QUOTE, <<"&", "q", "u", "o", "t", ";">>)
    IN  ReplaceAll(quot, "'", <<"&", "a", "p", "o", "s", ";">>)

\* escapeCsv without the test for a newline.
escapeCsvCommaOrQuote(str) ==
    IF Includes(str, ",") \/ Includes(str, QUOTE)
    THEN <<QUOTE>> \o ReplaceAll(str, QUOTE, <<QUOTE, QUOTE>>) \o <<QUOTE>>
    ELSE str

escapeCsv(str) ==
    IF Includes(str, ",") \/ Includes(str, QUOTE) \/ Includes(str, NL)
    THEN <<QUOTE>> \o ReplaceAll(str, QUOTE, <<QUOTE, QUOTE>>) \o <<QUOTE>>
    ELSE str

\* formatYamlValue without the test for '#'.
formatYamlValueColonOrNewline(value) ==
    IF value.t \in {"null", "undefined"} THEN <<"n", "u", "l", "l">>
    ELSE IF value.t = "bool" THEN (IF value.b THEN <<"t", "r", "u", "e">> ELSE <<"f", "a", "l", "s", "e">>)
    ELSE IF value.t = "num" THEN StringOf(value)
    ELSE IF value.t = "str"
         THEN IF Includes(value.s, ":") \/ Includes(value.s, NL)
              THEN <<QUOTE>> \o ReplaceAll(value.s, QUOTE, <<BSLASH, QUOTE>>) \o <<QUOTE>>
              ELSE value.s
    ELSE StringOf(value)

formatYamlValue(value) ==
    IF value.t \in {"null", "undefined"} THEN <<"n", "u", "l", "l">>
    ELSE IF value.t = "bool" THEN (IF value.b THEN <<"t", "r", "u", "e">> ELSE <<"f", "a", "l", "s", "e">>)
    ELSE IF value.t = "num" THEN StringOf(value)
    ELSE IF value.t = "str"
         THEN IF Includes(value.s, ":") \/ Includes(value.s, "#") \/ Includes(value.s, NL)
              THEN <<QUOTE>> \o ReplaceAll(value.s, QUOTE, <<BSLASH, QUOTE>>) \o <<QUOTE>>
              ELSE value.s
    ELSE StringOf(value)

\* The sanitizing of a key that replaces spaces only.
SanitizeKeySpaces(key) == [i \in 1..Len(key) |-> IF key[i] = SP THEN "_" ELSE key[i]]

\* The characters key.replace(/[^a-zA-Z0-9_-]/g, '_') keeps.
XmlNameChars ==
    Digits \cup {"_", "-"} \cup
    {"a", "b", "c", "d", "e", "f", "g", "h", "i", "j", "k", "l", "m",
     "n", "o", "p", "q", "r", "s", "t", "u", "v", "w", "x", "y", "z",
     "A", "B", "C", "D", "E", "F", "G", "H", "I", "J", "K", "L", "M",
     "N", "O", "P", "Q", "R", "S", "T", "U", "V", "W", "X", "Y", "Z"}

SanitizeKey(key) == [i \in 1..Len(key) |-> IF key[i] \in XmlNameChars THEN key[i] ELSE "_"]

\* text.split('\n').map(line => prefix + line).join('\n')
IndentLines(text, prefix) ==
    LET lines == Split(text, NL)
    IN  Join([i \in 1..Len(lines) |-> prefix \o lines[i]], <<NL>>)

\* The concatenation of the texts of parts.
Concat(parts) == Join(parts, <<>>)

\* The opening tag of an item with its index counted from 1.
ItemOpenFromOne(index) ==
    <<"<", "i", "t", "e", "m", SP, "i", "n", "d", "e", "x", "=", QUOTE>>
    \o IntToDigits(index + 1) \o <<QUOTE, ">">>

ItemOpen(index) ==
    <<"<", "i", "t", "e", "m", SP, "i", "n", "d", "e", "x", "=", QUOTE>>
    \o IntToDigits(index) \o <<QUOTE, ">">>

ItemClose == <<"<", "/", "i", "t", "e", "m", ">">>

RECURSIVE convertToXml(_)
convertToXml(data) ==
    IF data.t = "arr"
    THEN Concat([i \in 1..Len(data.a) |->
                   Repeat(<<SP>>, 2) \o ItemOpen(i - 1) \o <<NL>>
                   \o IndentLines(convertToXml(data.a[i]), Repeat(<<SP>>, 4))
                   \o <<NL>> \o Repeat(<<SP>>, 2) \o ItemClose \o <<NL>>])
    ELSE IF data.t = "obj"
    THEN Concat([n \in 1..Len(data.o) |->
           LET sanitizedKey == SanitizeKey(data.o[n].k)
               value == data.o[n].v
               openTag == <<"<">> \o sanitizedKey \o <<">">>
               closeTag == <<"<", "/">> \o sanitizedKey \o <<">">>
           IN  IF value.t = "arr"
               THEN Repeat(<<SP>>, 2) \o openTag \o <<NL>>
                    \o Concat([i \in 1..Len(value.a) |->
                                 Repeat(<<SP>>, 4) \o ItemOpen(i - 1) \o <<NL>>
                                 \o IndentLines(convertToXml(value.a[i]), Repeat(<<SP>>, 6))
                                 \o <<NL>> \o Repeat(<<SP>>, 4) \o ItemClose \o <<NL>>])
                    \o Repeat(<<SP>>, 2) \o closeTag \o <<NL>>
               ELSE IF value.t = "obj"
               THEN Repeat(<<SP>>, 2) \o openTag \o <<NL>>
                    \o IndentLines(convertToXml(value), Repeat(<<SP>>, 4))
                    \o <<NL>> \o Repeat(<<SP>>, 2) \o closeTag \o <<NL>>
               ELSE Repeat(<<SP>>, 2) \o openTag \o escapeXml(StringOf(value))
                    \o closeTag \o <<NL>>])
    ELSE escapeXml(StringOf(data))

XmlProlog ==
    <<"<", "?", "x", "m", "l", SP, "v", "e", "r", "s", "i", "o", "n", "=", QUOTE,
      "1", ".", "0", QUOTE, SP, "e", "n", "c", "o", "d", "i", "n", "g", "=", QUOTE,
      "U", "T", "F", "-", "8", QUOTE, "?", ">">>

\* jsonToXml after its first line, obj the value to convert.
XmlOf(obj) ==
    IF Falsy(obj) THEN Thrown("Invalid JSON input")
    ELSE Returned(XmlProlog \o <<NL, "<", "r", "o", "o", "t", ">", NL>>
                  \o convertToXml(obj) \o <<"<", "/", "r", "o", "o", "t", ">">>)

jsonToXml(json) == XmlOf(ParseArgument(json))

RECURSIVE Dedupe(_, _)
\* Array.from(new Set(keys)): each key once, at its first place.
Dedupe(keys, seen) ==
    IF keys = <<>> THEN <<>>
    ELSE IF Head(keys) \in seen THEN Dedupe(Tail(keys), seen)
    ELSE <<Head(keys)>> \o Dedupe(Tail(keys), seen \cup {Head(keys)})

\* CsvCell without the test for null and undefined.
CsvCellNullAsText(item, key) ==
    LET value == GetProp(item.o, key)
    IN  IF IsObjectLike(value) THEN escapeCsv(JSONstringify(value, 0))
        ELSE escapeCsv(StringOf(value))

\* One cell of a CSV row: the value of key in the object item.
CsvCell(item, key) ==
    LET value == GetProp(item.o, key)
    IN  IF value.t \in {"null", "undefined"} THEN <<>>
        ELSE IF IsObjectLike(value) THEN escapeCsv(JSONstringify(value, 0))
        ELSE escapeCsv(StringOf(value))

\* The unique keys of the elements of an array that are plain objects.
CsvKeys(items) ==
    Dedupe(Concat([i \in 1..Len(items) |->
                     IF items[i].t = "obj" THEN ObjectKeys(items[i].o) ELSE <<>>]), {})

CsvHeader(keys) == Join([i \in 1..Len(keys) |-> escapeCsv(keys[i])], <<",">>)

\* CsvRow giving an empty line for an element that is no object.
CsvRowBlankLine(item, keys) ==
    IF item.t # "obj" THEN <<>>
    ELSE Join([i \in 1..Len(keys) |-> CsvCell(item, keys[i])], <<",">>)

\* One data row of an array's CSV.
CsvRow(item, keys) ==
    IF item.t # "obj" THEN Join([i \in 1..Len(keys) |-> <<>>], <<",">>)
    ELSE Join([i \in 1..Len(keys) |-> CsvCell(item, keys[i])], <<",">>)

\* The CSV of an array of at least one element: the header and a row each.
CsvOfArray(items, keys) ==
    Join(<<CsvHeader(keys)>> \o [i \in 1..Len(items) |-> CsvRow(items[i], keys)], <<NL>>)

\* CsvOfObject with the header and the row joined by a comma.
CsvOfObjectOneLine(obj, keys) ==
    CsvHeader(keys) \o <<",">>
    \o Join([i \in 1..Len(keys) |-> CsvCell(obj, keys[i])], <<",">>)

\* The CSV of a single object: the header and one row.
CsvOfObject(obj, keys) ==
    CsvHeader(keys) \o <<NL>>
    \o Join([i \in 1..Len(keys) |-> CsvCell(obj, keys[i])], <<",">>)

\* jsonToCsv after its first line, obj the value to convert.
CsvOf(obj) ==
    IF Falsy(obj) THEN Thrown("Invalid JSON input")
    ELSE IF obj.t = "arr"
    THEN IF Len(obj.a) = 0 THEN Returned(<<>>)
         ELSE Returned(CsvOfArray(obj.a, CsvKeys(obj.a)))
    ELSE IF obj.t = "obj"
    THEN Returned(CsvOfObject(obj, ObjectKeys(obj.o)))
    ELSE Thrown("JSON must be an object or array for CSV conversion")

jsonToCsv(json) == CsvOf(ParseArgument(json))

RECURSIVE convertToYamlSameLevel(_, _)
\* convertToYaml writing the block of a nested value at the level of its key
\* or dash.
convertToYamlSameLevel(data, indent) ==
    LET spaces == Repeat(<<SP, SP>>, indent)
    IN  IF data.t = "arr"
        THEN Concat([i \in 1..Len(data.a) |->
                       IF IsObjectLike(data.a[i])
                       THEN spaces \o <<"-", NL>> \o convertToYamlSameLevel(data.a[i], indent)
                       ELSE spaces \o <<"-", SP>> \o formatYamlValue(data.a[i]) \o <<NL>>])
        ELSE IF data.t = "obj"
        THEN Concat([i \in 1..Len(data.o) |->
                       IF IsObjectLike(data.o[i].v)
                       THEN spaces \o data.o[i].k \o <<":", NL>>
                            \o convertToYamlSameLevel(data.o[i].v, indent)
                       ELSE spaces \o data.o[i].k \o <<":", SP>>
                            \o formatYamlValue(data.o[i].v) \o <<NL>>])
        ELSE spaces \o formatYamlValue(data) \o <<NL>>

RECURSIVE convertToYaml(_, _)
convertToYaml(data, indent) ==
    LET spaces == Repeat(<<SP, SP>>, indent)
    IN  IF data.t = "arr"
        THEN Concat([i \in 1..Len(data.a) |->
                       IF IsObjectLike(data.a[i])
                       THEN spaces \o <<"-", NL>> \o convertToYaml(data.a[i], indent + 1)
                       ELSE spaces \o <<"-", SP>> \o formatYamlValue(data.a[i]) \o <<NL>>])
        ELSE IF data.t = "obj"
        THEN Concat([i \in 1..Len(data.o) |->
                       IF IsObjectLike(data.o[i].v)
                       THEN spaces \o data.o[i].k \o <<":", NL>>
                            \o convertToYaml(data.o[i].v, indent + 1)
                       ELSE spaces \o data.o[i].k \o <<":", SP>>
                            \o formatYamlValue(data.o[i].v) \o <<NL>>])
        ELSE spaces \o formatYamlValue(data) \o <<NL>>

\* YamlOf without the test of obj.
YamlOfUnchecked(obj) == Returned(convertToYaml(obj, 0))

\* jsonToYaml after its first line, obj the value to convert.
YamlOf(obj) ==
    IF Falsy(obj) THEN Thrown("Invalid JSON input")
    ELSE Returned(convertToYaml(obj, 0))

jsonToYaml(json) == YamlOf(ParseArgument(json))


(***************************************************************************)
(* The inputs.  A document is a JSON text as written: its literals as      *)
(* spelled, the members of its objects in the order of the text, repeated  *)
(* keys included.  Render gives the text, ws being the white space written *)
(* around the structural characters.                                       *)
(***************************************************************************)
MaxLen == 3
MaxMembers == 2
MaxElements == 2

DLit(s) == [d |-> "lit", s |-> s]
DStr(s) == [d |-> "str", s |-> s]
DArr(a) == [d |-> "arr", a |-> a]
DObj(m) == [d |-> "obj", m |-> m]
Member(k, v) == [k |-> k, v |-> v]
NoDoc == [d |-> "none"]

RECURSIVE Render(_, _)
Render(node, ws) ==
    CASE node.d = "lit" -> node.s
      [] node.d = "str" -> QuoteJson(node.s)
      [] node.d = "arr" ->
           <<"[">> \o ws
           \o Join([i \in 1..Len(node.a) |-> Render(node.a[i], ws)], <<",">> \o ws)
           \o ws \o <<"]">>
      [] node.d = "obj" ->
           <<"{">> \o ws
           \o Join([i \in 1..Len(node.m) |->
                      QuoteJson(node.m[i].k) \o <<":">> \o ws \o Render(node.m[i].v, ws)],
                   <<",">> \o ws)
           \o ws \o <<"}">>

\* The sequences over S of length at most n.
SeqsUpTo(S, n) == UNION {[1..k -> S] : k \in 0..n}

\* Every text of at most MaxLen characters over these characters.
Alphabet == {"{", "}", "[", "]", QUOTE, ":", ",", "1", "a", SP, NL}
ShortTexts == SeqsUpTo(Alphabet, MaxLen)

NullLit == DLit(<<"n", "u", "l", "l">>)
TrueLit == DLit(<<"t", "r", "u", "e">>)
FalseLit == DLit(<<"f", "a", "l", "s", "e">>)
Num(s) == DLit(s)

Literals ==
    {NullLit, TrueLit, FalseLit, Num(<<"0">>), Num(<<"1">>), Num(<<"-", "1", "2">>),
     Num(<<"1", ".", "5">>), Num(<<"1", "e", "9", "9", "9">>)}

Strings ==
    {DStr(<<>>), DStr(<<"a">>), DStr(<<"x", ",", "y">>), DStr(<<"q", QUOTE>>),
     DStr(<<"l", NL, "m">>), DStr(<<"a", SP, "b">>), DStr(<<"[", "1", "]">>)}

Scalars == Literals \cup Strings

Nested ==
    {DArr(<<>>), DObj(<<>>), DArr(<<Num(<<"1">>), Num(<<"2">>)>>),
     DObj(<<Member(<<"c">>, Num(<<"3">>))>>),
     DArr(<<DStr(<<"x", ",", "y">>), Num(<<"1", "e", "9", "9", "9">>)>>),
     DObj(<<Member(<<"c">>, DStr(<<"q", QUOTE>>))>>)}

Keys == {<<"a">>, <<"b">>, <<"2">>}
WideKeys == Keys \cup {<<"1", "0">>, <<"a", SP, "b">>, <<"k", ",", "k">>, <<"q", QUOTE>>, <<>>}
CellValues == {Num(<<"1">>), NullLit, DStr(<<"x", ",", "y">>), DArr(<<Num(<<"1">>)>>)}

\* Objects of at most MaxMembers members, keys and values from small sets.
FlatObjects ==
    {DObj(m) : m \in SeqsUpTo({Member(k, v) : k \in Keys, v \in CellValues}, MaxMembers)}

\* Objects of one member, of every key and value.
SingleMember ==
    {DObj(<<Member(k, v)>>) : k \in WideKeys, v \in Scalars \cup Nested}

Rows ==
    {DObj(<<Member(<<"a">>, Num(<<"1">>)), Member(<<"b">>, Num(<<"2">>))>>),
     DObj(<<Member(<<"a">>, Num(<<"3">>))>>),
     DObj(<<Member(<<"b">>, Num(<<"1">>)), Member(<<"2">>, DStr(<<"x", ",", "y">>))>>),
     DObj(<<Member(<<"1", "0">>, NullLit), Member(<<"2">>, TrueLit),
            Member(<<"a">>, DArr(<<Num(<<"1">>)>>))>>),
     DObj(<<Member(<<"a">>, Num(<<"1">>)), Member(<<"a">>, Num(<<"2">>))>>),
     Num(<<"5">>), NullLit, DArr(<<Num(<<"1">>)>>)}

\* Arrays of at most MaxElements rows.
RowArrays == {DArr(a) : a \in SeqsUpTo(Rows, MaxElements)}

\* toYaml({a:[1,2],b:{c:3}}) and toXml({"a b":1}) of the tests.
Examples ==
    {DObj(<<Member(<<"a">>, DArr(<<Num(<<"1">>), Num(<<"2">>)>>)),
            Member(<<"b">>, DObj(<<Member(<<"c">>, Num(<<"3">>))>>))>>),
     DObj(<<Member(<<"a", SP, "b">>, Num(<<"1">>))>>),
     DObj(<<Member(<<"a">>, Num(<<"1">>)), Member(<<"b">>, DStr(<<"x", ",", "y">>))>>)}

\* Texts for the XML converter: keys that collide once sanitized, values
\* holding the characters escapeXml replaces, a string of two lines inside a
\* nested object, arrays inside arrays inside objects.
XmlExamples ==
    {DObj(<<Member(<<"a", SP, "b">>, Num(<<"1">>)), Member(<<"a", "_", "b">>, Num(<<"2">>))>>),
     DStr(<<"&", "l", "t", ";">>),
     DStr(<<"<", "a", ">">>),
     DObj(<<Member(<<"a">>, DStr(<<"'", "&", QUOTE, "<", ">">>))>>),
     DArr(<<DStr(<<"a", "&", "&">>), TrueLit>>),
     DObj(<<Member(<<"c">>, DObj(<<Member(<<"a">>, DStr(<<"l", NL, "m">>))>>))>>),
     DObj(<<Member(<<"a">>, DArr(<<DArr(<<Num(<<"1">>), DObj(<<Member(<<"b">>, NullLit)>>)>>),
                                  DStr(<<"x", "<">>)>>))>>)}

\* Texts for the YAML converter: strings holding ':', '#' and a double quote.
YamlExamples ==
    {DStr(<<"a", ":", "b">>), DStr(<<"#">>), DStr(<<"q", QUOTE, ":">>),
     DObj(<<Member(<<"a">>, DStr(<<"q", QUOTE, "#">>)), Member(<<"b">>, DStr(<<"l", NL, "m">>))>>),
     DArr(<<DArr(<<DStr(<<"a", ":", "b">>), FalseLit>>),
            DObj(<<Member(<<"a">>, DObj(<<Member(<<"b">>, DArr(<<Num(<<"1", ".", "5">>)>>))>>))>>)>>)}

Docs ==
    Scalars \cup Nested \cup FlatObjects \cup SingleMember \cup RowArrays \cup Examples
    \cup XmlExamples \cup YamlExamples

\* The white space a text is written with.
Spacings == {<<>>, <<SP>>, <<NL, SP>>}

\* The proper prefixes of a text: what is left when it is cut short.
Truncations(text) == {SubSeq(text, 1, n) : n \in 0..(Len(text) - 1)}

(***************************************************************************)
(* The state: the input text (and the document it was written from, NoDoc  *)
(* when it is a text of ShortTexts or a text cut short), the function      *)
(* called on it and what the call returned.  A behaviour is one call of    *)
(* one function on one input.                                              *)
(***************************************************************************)
\* The page as Home's hooks create it.
PageCreated ==
    /\ inputJson = <<>>
    /\ outputJson = <<>>
    /\ activeTab = "formatted"
    /\ notification = ""
    /\ viewer = <<>>
    /\ timers = 0
    /\ download = [called |-> FALSE]
    /\ isInputMinimized = FALSE
    /\ isOutputMinimized = FALSE
    /\ isWideMode = FALSE
    /\ fullscreenPanel = "null"
    /\ fetches = <<>>
    /\ clipboard = [called |-> FALSE]

Init ==
    /\ PageCreated
    /\ op = "none"
    /\ result = NoResult
    /\ \/ doc = NoDoc /\ input \in ShortTexts
       \/ doc \in Docs /\ input = Render(doc, <<>>)
       \/ doc \in Nested \cup Examples /\ input \in {Render(doc, ws) : ws \in Spacings \ {<<>>}}
       \/ doc = NoDoc
          /\ input \in UNION {Truncations(Render(d, ws)) : d \in Examples, ws \in Spacings}

FormatJson ==
    /\ op = "none"
    /\ op' = "formatJson"
    /\ result' = formatJson(input, 2)
    /\ UNCHANGED <<input, doc>>
    /\ UNCHANGED <<pageVars, layoutVars, browserVars>>

MinifyJson ==
    /\ op = "none"
    /\ op' = "minifyJson"
    /\ result' = minifyJson(input)
    /\ UNCHANGED <<input, doc>>
    /\ UNCHANGED <<pageVars, layoutVars, browserVars>>

ValidateJson ==
    /\ op = "none"
    /\ op' = "validateJson"
    /\ \E reportsPosition \in BOOLEAN : result' = validateJson(input, reportsPosition)
    /\ UNCHANGED <<input, doc>>
    /\ UNCHANGED <<pageVars, layoutVars, browserVars>>

JsonToXml ==
    /\ op = "none"
    /\ op' = "jsonToXml"
    /\ result' = jsonToXml(JStr(input))
    /\ UNCHANGED <<input, doc>>
    /\ UNCHANGED <<pageVars, layoutVars, browserVars>>

JsonToCsv ==
    /\ op = "none"
    /\ op' = "jsonToCsv"
    /\ result' = jsonToCsv(JStr(input))
    /\ UNCHANGED <<input, doc>>
    /\ UNCHANGED <<pageVars, layoutVars, browserVars>>

JsonToYaml ==
    /\ op = "none"
    /\ op' = "jsonToYaml"
    /\ result' = jsonToYaml(JStr(input))
    /\ UNCHANGED <<input, doc>>
    /\ UNCHANGED <<pageVars, layoutVars, browserVars>>

EscapeCsv ==
    /\ op = "none"
    /\ op' = "escapeCsv"
    /\ result' = Returned(escapeCsv(input))
    /\ UNCHANGED <<input, doc>>
    /\ UNCHANGED <<pageVars, layoutVars, browserVars>>

\* formatYamlValue on a scalar: what the input parses to (parseJson gives
\* null for a text that does not parse), or undefined.
FormatYamlValue ==
    /\ op = "none"
    /\ op' = "formatYamlValue"
    /\ \E value \in {parseJson(input), Undefined} :
         /\ ~IsObjectLike(value)
         /\ result' = [threw |-> FALSE, out |-> formatYamlValue(value), error |-> "",
                       arg |-> value]
    /\ UNCHANGED <<input, doc>>
    /\ UNCHANGED <<pageVars, layoutVars, browserVars>>

Next ==
    \/ FormatJson
    \/ MinifyJson
    \/ ValidateJson
    \/ JsonToXml
    \/ JsonToCsv
    \/ JsonToYaml
    \/ EscapeCsv
    \/ FormatYamlValue

Spec == Init /\ [][Next]_vars


(***************************************************************************)
(* The page (Home): the input text, the output of the last Format or       *)
(* Minify, the active tab, the notification and its timers, what the       *)
(* output editor shows and the last file handed to downloadFile.  React    *)
(* renders the page again after every handler, so every action ends with   *)
(* the content of the output editor computed from the new state.           *)
(***************************************************************************)
MaxTimers == 2

\* The texts typed, pasted or loaded into the input editor.
PageTexts ==
    {<<>>, <<"{">>, <<"5">>, QuoteJson(<<"[", "1", "]">>),
     Render(DObj(<<Member(<<"a">>, Num(<<"1">>)), Member(<<"b">>, DStr(<<"x", ",", "y">>))>>),
            <<>>)}

Tabs == {"formatted", "tree", "xml", "csv", "yaml"}

\* The characters of the message of an Error a converter throws.
MessageText(message) ==
    CASE message = "Invalid JSON input" ->
           <<"I", "n", "v", "a", "l", "i", "d", SP, "J", "S", "O", "N", SP, "i", "n",
             "p", "u", "t">>
      [] message = "JSON must be an object or array for CSV conversion" ->
           <<"J", "S", "O", "N", SP, "m", "u", "s", "t", SP, "b", "e", SP, "a", "n", SP,
             "o", "b", "j", "e", "c", "t", SP, "o", "r", SP, "a", "r", "r", "a", "y", SP,
             "f", "o", "r", SP, "C", "S", "V", SP, "c", "o", "n", "v", "e", "r", "s",
             "i", "o", "n">>

\* `Error: ${error.message}`
ErrorPrefix == <<"E", "r", "r", "o", "r", ":", SP>>

\* The switch of getOutputContent on the active tab, parsed the truthy value
\* of the input.
Converted(parsed, text, output, tab) ==
    CASE tab = "formatted" ->
           Returned(IF output # <<>> THEN output ELSE formatJson(text, 2).formatted)
      [] tab = "tree" -> Returned(<<>>)
      [] tab = "xml" -> jsonToXml(parsed)
      [] tab = "csv" -> jsonToCsv(parsed)
      [] tab = "yaml" -> jsonToYaml(parsed)
      [] OTHER -> Returned(output)

\* The try and catch of getOutputContent with a catch that returns ''.
Swallowed(outcome) == IF outcome.threw THEN <<>> ELSE outcome.out

\* The try and catch of getOutputContent around the switch: what the switch
\* returned, or the message of the error it threw.
Caught(outcome) ==
    IF outcome.threw THEN ErrorPrefix \o MessageText(outcome.error) ELSE outcome.out

\* getOutputContent after its first line.
OutputOf(parsed, text, output, tab) ==
    IF Falsy(parsed) THEN <<>>
    ELSE Caught(Converted(parsed, text, output, tab))

\* getOutputContent: what the output editor is rendered with.
getOutputContent(text, output, tab) == OutputOf(parseJson(text), text, output, tab)

\* showNotification: the message is set and a timer of 3 seconds started.
showNotification(message) ==
    /\ timers < MaxTimers
    /\ notification' = message
    /\ timers' = timers + 1

\* The timer of a showNotification fires: setNotification('').
NotificationTimeout ==
    /\ timers > 0
    /\ timers' = timers - 1
    /\ notification' = ""
    /\ UNCHANGED <<inputJson, outputJson, activeTab, viewer, download>>
    /\ UNCHANGED <<callVars, layoutVars, browserVars>>

\* The input editor is rendered in its panel unless the panel is minimized,
\* and in the fullscreen overlay of the input; the tab panel likewise.
InputEditorShown == ~isInputMinimized \/ fullscreenPanel = "input"

TabPanelShown == ~isOutputMinimized \/ fullscreenPanel = "output"

\* The input editor's onChange: setInputJson.
EditInput ==
    /\ InputEditorShown
    /\ \E text \in PageTexts \ {inputJson} :
         /\ inputJson' = text
         /\ viewer' = getOutputContent(text, outputJson, activeTab)
    /\ UNCHANGED <<outputJson, activeTab, notification, timers, download>>
    /\ UNCHANGED <<callVars, layoutVars, browserVars>>

\* TabPanel's onTabChange: setActiveTab.
SelectTab ==
    /\ TabPanelShown
    /\ \E tab \in Tabs \ {activeTab} :
         /\ activeTab' = tab
         /\ viewer' = getOutputContent(inputJson, outputJson, tab)
    /\ UNCHANGED <<inputJson, outputJson, notification, timers, download>>
    /\ UNCHANGED <<callVars, layoutVars, browserVars>>

\* handleFormat and handleMinify after the call of formatJson or minifyJson.
ShowFormatted(formatResult, done) ==
    IF formatResult.error # ""
    THEN /\ showNotification(formatResult.error)
         /\ outputJson' = <<>>
         /\ activeTab' = activeTab
         /\ viewer' = getOutputContent(inputJson, <<>>, activeTab)
    ELSE /\ outputJson' = formatResult.formatted
         /\ activeTab' = "formatted"
         /\ showNotification(done)
         /\ viewer' = getOutputContent(inputJson, formatResult.formatted, "formatted")

HandleFormat ==
    /\ ShowFormatted(formatJson(inputJson, 2), "JSON formatted successfully!")
    /\ UNCHANGED <<inputJson, download>>
    /\ UNCHANGED <<callVars, layoutVars, browserVars>>

HandleMinify ==
    /\ ShowFormatted(minifyJson(inputJson), "JSON minified successfully!")
    /\ UNCHANGED <<inputJson, download>>
    /\ UNCHANGED <<callVars, layoutVars, browserVars>>

HandleClear ==
    /\ inputJson' = <<>>
    /\ outputJson' = <<>>
    /\ showNotification("Cleared!")
    /\ viewer' = getOutputContent(<<>>, <<>>, activeTab)
    /\ UNCHANGED <<activeTab, download>>
    /\ UNCHANGED <<callVars, layoutVars, browserVars>>

HandleLoadSample ==
    /\ \E sample \in PageTexts \ {<<>>, <<"{">>} :
         /\ inputJson' = sample
         /\ viewer' = getOutputContent(sample, outputJson, activeTab)
    /\ showNotification("Sample loaded!")
    /\ UNCHANGED <<outputJson, activeTab, download>>
    /\ UNCHANGED <<callVars, layoutVars, browserVars>>

\* The extension handleDownload takes from the active tab, with yml for yaml.
ExtensionYml(tab) ==
    CASE tab = "xml" -> "xml"
      [] tab = "csv" -> "csv"
      [] tab = "yaml" -> "yml"
      [] OTHER -> "json"

\* The extension handleDownload takes from the active tab.
Extension(tab) ==
    CASE tab = "xml" -> "xml"
      [] tab = "csv" -> "csv"
      [] tab = "yaml" -> "yaml"
      [] OTHER -> "json"

\* handleDownload, textToDownload being outputJson || inputJson.
Downloaded(textToDownload) ==
    IF textToDownload = <<>>
    THEN /\ showNotification("Nothing to download!")
         /\ UNCHANGED download
    ELSE /\ download' = [called |-> TRUE, content |-> textToDownload,
                         name |-> "formatted", extension |-> Extension(activeTab)]
         /\ showNotification("Downloaded!")

HandleDownload ==
    /\ Downloaded(IF outputJson # <<>> THEN outputJson ELSE inputJson)
    /\ UNCHANGED <<inputJson, outputJson, activeTab, viewer>>
    /\ UNCHANGED <<callVars, layoutVars, browserVars>>

PageInit ==
    /\ PageCreated
    /\ input = <<>>
    /\ op = "none"
    /\ result = NoResult
    /\ doc = NoDoc

PageNext ==
    \/ EditInput
    \/ SelectTab
    \/ HandleFormat
    \/ HandleMinify
    \/ HandleClear
    \/ HandleLoadSample
    \/ HandleDownload
    \/ NotificationTimeout

PageSpec == PageInit /\ [][PageNext]_vars


(***************************************************************************)
(* handleCopy.                                                             *)
(***************************************************************************)
\* handleCopy, textToCopy being outputJson || inputJson.  copyToClipboard
\* is given the text and answers whether the browser took it.
Copied(textToCopy) ==
    IF textToCopy = <<>>
    THEN /\ showNotification("Nothing to copy!")
         /\ UNCHANGED clipboard
    ELSE /\ clipboard' = [called |-> TRUE, content |-> textToCopy]
         /\ \E success \in BOOLEAN :
              showNotification(IF success THEN "Copied to clipboard!"
                               ELSE "Failed to copy!")

HandleCopy ==
    /\ Copied(IF outputJson # <<>> THEN outputJson ELSE inputJson)
    /\ UNCHANGED <<inputJson, outputJson, activeTab, viewer, download, fetches>>
    /\ UNCHANGED <<callVars, layoutVars>>

ExportNext ==
    \/ EditInput
    \/ SelectTab
    \/ HandleDownload
    \/ HandleCopy
    \/ NotificationTimeout

ExportSpec == PageInit /\ [][ExportNext]_vars

(***************************************************************************)
(* The page's layout: minimized panels, wide mode and the fullscreen       *)
(* overlay.                                                                *)
(***************************************************************************)
Panels == {"input", "output"}

OtherPanelKept(own, other) == other

\* toggleInputMinimize and toggleOutputMinimize, own being the flag of the
\* toggled panel: what the flag of the other panel becomes.
OtherPanelAfterToggle(own, other) == IF ~own THEN FALSE ELSE other

layoutOnly == <<pageVars, callVars, browserVars>>

ToggleInputMinimize ==
    /\ isInputMinimized' = ~isInputMinimized
    /\ isOutputMinimized' = OtherPanelAfterToggle(isInputMinimized, isOutputMinimized)
    /\ UNCHANGED <<isWideMode, fullscreenPanel>>
    /\ UNCHANGED layoutOnly

ToggleOutputMinimize ==
    /\ isOutputMinimized' = ~isOutputMinimized
    /\ isInputMinimized' = OtherPanelAfterToggle(isOutputMinimized, isInputMinimized)
    /\ UNCHANGED <<isWideMode, fullscreenPanel>>
    /\ UNCHANGED layoutOnly

\* A click on the label a minimized input panel shows in place of its editor.
ExpandInput ==
    /\ isInputMinimized
    /\ isInputMinimized' = FALSE
    /\ UNCHANGED <<isOutputMinimized, isWideMode, fullscreenPanel>>
    /\ UNCHANGED layoutOnly

\* A click on the label of a minimized output panel.
ExpandOutput ==
    /\ isOutputMinimized
    /\ isOutputMinimized' = FALSE
    /\ UNCHANGED <<isInputMinimized, isWideMode, fullscreenPanel>>
    /\ UNCHANGED layoutOnly

\* onWideModeToggle.
ToggleWideMode ==
    /\ isWideMode' = ~isWideMode
    /\ UNCHANGED <<isInputMinimized, isOutputMinimized, fullscreenPanel>>
    /\ UNCHANGED layoutOnly

\* The fullscreen button of a panel.
OpenFullscreen ==
    /\ \E panel \in Panels \ {fullscreenPanel} : fullscreenPanel' = panel
    /\ UNCHANGED <<isInputMinimized, isOutputMinimized, isWideMode>>
    /\ UNCHANGED layoutOnly

\* The Escape key and the overlay's Close button.
CloseFullscreen ==
    /\ fullscreenPanel # "null"
    /\ fullscreenPanel' = "null"
    /\ UNCHANGED <<isInputMinimized, isOutputMinimized, isWideMode>>
    /\ UNCHANGED layoutOnly

LayoutNext ==
    \/ ToggleInputMinimize
    \/ ToggleOutputMinimize
    \/ ExpandInput
    \/ ExpandOutput
    \/ ToggleWideMode
    \/ OpenFullscreen
    \/ CloseFullscreen
    \/ EditInput
    \/ SelectTab

LayoutSpec == PageInit /\ [][LayoutNext]_vars

(***************************************************************************)
(* handleLoadUrl.  fetches is the list of the fetch calls the page has     *)
(* made, in the order of the calls: the URL, the number of earlier calls   *)
(* still pending at the call, and how the call ended.                      *)
(***************************************************************************)
MaxFetches == 2

Urls == {"a.json", "b.json"}

\* The JSON document each URL serves.
BodyOf(url) == IF url = "a.json" THEN <<"5">> ELSE <<"[", "1", "]">>

\* What a fetch can end with: a rejection (network failure), a response that
\* is not ok (a status outside 200..299) or an ok response, whose body is the
\* document or is not JSON.
Responses(url) ==
    { [rejects |-> TRUE, ok |-> FALSE, body |-> <<>>],
      [rejects |-> FALSE, ok |-> FALSE, body |-> <<"{", "}">>],
      [rejects |-> FALSE, ok |-> TRUE, body |-> <<"<">>],
      [rejects |-> FALSE, ok |-> TRUE, body |-> BodyOf(url)] }

\* The try block of handleLoadUrl from the await of fetch on: the text for
\* setInputJson, or the error thrown.
LoadOutcome(response, data) ==
    IF response.rejects THEN Thrown("Failed to fetch")
    ELSE IF ~response.ok THEN Thrown("HTTP 404: Not Found")
    ELSE IF ~data.ok THEN Thrown("Unexpected token")
    ELSE Returned(JSONstringify(data.v, 2))

\* The notification of the catch block.
FailedToLoad(message) ==
    CASE message = "Failed to fetch" -> "Failed to load: Failed to fetch"
      [] message = "HTTP 404: Not Found" -> "Failed to load: HTTP 404: Not Found"
      [] OTHER -> "Failed to load: Unexpected token"

FailureMessages ==
    {FailedToLoad(m) : m \in {"Failed to fetch", "HTTP 404: Not Found", "Unexpected token"}}

InputAfterLoadCleared(outcome, text) == IF outcome.threw THEN <<>> ELSE outcome.out

\* The input text after the try and catch: setInputJson is called on the
\* path without an error only.
InputAfterLoad(outcome, text) == IF outcome.threw THEN text ELSE outcome.out

Pending == {i \in 1..Len(fetches) : fetches[i].state = "pending"}

\* handleLoadUrl up to its await of fetch.
HandleLoadUrl ==
    /\ Len(fetches) < MaxFetches
    /\ showNotification("Loading from URL...")
    /\ \E url \in Urls :
         fetches' = Append(fetches, [url |-> url, inFlight |-> Cardinality(Pending),
                                     state |-> "pending"])
    /\ UNCHANGED <<inputJson, outputJson, activeTab, viewer, download, clipboard>>
    /\ UNCHANGED <<callVars, layoutVars>>

Resumed(i, outcome) ==
    /\ inputJson' = InputAfterLoad(outcome, inputJson)
    /\ viewer' = getOutputContent(InputAfterLoad(outcome, inputJson), outputJson, activeTab)
    /\ showNotification(IF outcome.threw THEN FailedToLoad(outcome.error)
                        ELSE "Loaded from URL!")
    /\ fetches' = [fetches EXCEPT ![i].state = IF outcome.threw THEN "failed" ELSE "loaded"]

\* handleLoadUrl from its await on, when the fetch of call i has ended.
LoadUrlResumes ==
    /\ \E i \in Pending :
         \E response \in Responses(fetches[i].url) :
            Resumed(i, LoadOutcome(response, JSONparse(response.body)))
    /\ UNCHANGED <<outputJson, activeTab, download, clipboard>>
    /\ UNCHANGED <<callVars, layoutVars>>

LoadNext ==
    \/ HandleLoadUrl
    \/ LoadUrlResumes
    \/ NotificationTimeout

LoadSpec == PageInit /\ [][LoadNext]_vars

(***************************************************************************)
(* What the claims are stated with.                                        *)
(***************************************************************************)
Whitespace == {SP, TAB, NL, CR, FF}

\* The outcome of parsing the input text.
ParsedInput == JSONparse(input)

Q(s) == <<QUOTE>> \o s \o <<QUOTE>>

\* {"a":1 : the test's truncated input.
TruncatedText == <<"{">> \o Q(<<"a">>) \o <<":", "1">>

\* Every text that is a valid text cut short.
TruncatedTexts == UNION {Truncations(Render(d, ws)) : d \in Examples, ws \in Spacings}

RECURSIVE NoWsOutside(_, _, _)
\* No white space from index i on outside of string literals, inString telling
\* whether index i is inside one.
NoWsOutside(text, i, inString) ==
    IF i > Len(text) THEN TRUE
    ELSE IF inString
         THEN IF text[i] = BSLASH THEN NoWsOutside(text, i + 2, TRUE)
              ELSE NoWsOutside(text, i + 1, text[i] # QUOTE)
    ELSE text[i] \notin Whitespace /\ NoWsOutside(text, i + 1, text[i] = QUOTE)

\* The 1-based indices of the newlines among the first p characters.
NewlinesBefore(text, p) == {i \in 1..p : text[i] = NL}

Max(S) == CHOOSE x \in S : \A y \in S : y <= x

\* A CSV reader: fields end at a comma and records at a newline, unless inside
\* double quotes, where "" stands for one double quote.  A character is
\* outside of quotes when an even number of double quotes comes before it.
QuotesUpTo(text, i) == Cardinality({j \in 1..i : text[j] = QUOTE})

\* The indices, within lo..hi, of the character c outside of quotes.
Breaks(text, c, lo, hi) ==
    {i \in lo..hi : text[i] = c /\ QuotesUpTo(text, i - 1) % 2 = 0}

\* The k-th smallest element of a set of integers.
Nth(S, k) == CHOOSE i \in S : Cardinality({j \in S : j <= i}) = k

\* The stretches lo..hi is cut into at the indices of cuts.
Pieces(cuts, lo, hi) ==
    [k \in 1..(Cardinality(cuts) + 1) |->
        [lo |-> IF k = 1 THEN lo ELSE Nth(cuts, k - 1) + 1,
         hi |-> IF k = Cardinality(cuts) + 1 THEN hi ELSE Nth(cuts, k) - 1]]

\* The characters of s at the indices of kept, in order.
Keep(s, kept) == [k \in 1..Cardinality(kept) |-> s[Nth(kept, k)]]

\* The content of a field: of a quoted one, what is between the quotes with
\* every pair of double quotes read as one.
Unquote(field) ==
    IF field # <<>> /\ field[1] = QUOTE
    THEN Keep(field, {i \in 2..(Len(field) - 1) :
                        field[i] # QUOTE \/ QuotesUpTo(field, i) % 2 = 1})
    ELSE field

\* The fields of the record text[lo..hi].
ReadRecord(text, lo, hi) ==
    LET fields == Pieces(Breaks(text, ",", lo, hi), lo, hi)
    IN  [k \in 1..Len(fields) |-> Unquote(SubSeq(text, fields[k].lo, fields[k].hi))]

\* The records of a CSV text, each the sequence of its fields.  An empty line
\* reads as one empty field.
ReadCsv(text) ==
    LET lines == Pieces(Breaks(text, NL, 1, Len(text)), 1, Len(text))
    IN  [r \in 1..Len(lines) |-> ReadRecord(text, lines[r].lo, lines[r].hi)]

\* A record holds exactly the fields expected; of no column at all, the line
\* is empty.
HoldsFields(rec, expected) ==
    IF expected = <<>> THEN rec = <<<<>>>> ELSE rec = expected

\* A record holds one field per column.
OneFieldPerColumn(rec, columns) ==
    IF columns = <<>> THEN rec = <<<<>>>> ELSE Len(rec) = Len(columns)

RECURSIVE FirstSeen(_)
\* Each key once, at the place it is first seen.
FirstSeen(keys) ==
    IF keys = <<>> THEN <<>>
    ELSE LET n == Len(keys)
         IN  IF \E j \in 1..(n - 1) : keys[j] = keys[n]
             THEN FirstSeen(SubSeq(keys, 1, n - 1))
             ELSE Append(FirstSeen(SubSeq(keys, 1, n - 1)), keys[n])

RECURSIVE Ascending(_)
\* The integer-like keys of a set in ascending numeric order.
Ascending(S) ==
    IF S = {} THEN <<>>
    ELSE LET m == CHOOSE k \in S : \A j \in S \ {k} : DigitsLess(k, j)
         IN  <<m>> \o Ascending(S \ {m})

\* The keys of an object of the text, in the order written.
KeysAsWritten(node) ==
    IF node.d = "obj" THEN [i \in 1..Len(node.m) |-> node.m[i].k] ELSE <<>>

\* The keys as JavaScript enumerates them: the integer-like keys in ascending
\* numeric order, then the other keys in the order written.
InPropertyOrder(keys) ==
    Ascending({keys[i] : i \in {j \in 1..Len(keys) : IsArrayIndex(keys[j])}})
    \o FirstSeen(SelectSeq(keys, LAMBDA k : ~IsArrayIndex(k)))

\* What a cell shows for a value: nothing for a missing or null one, the
\* compact JSON of an object or array, the string coercion of any other.
CellText(value) ==
    IF value.t \in {"null", "undefined"} THEN <<>>
    ELSE IF value.t \in {"arr", "obj"} THEN JSONstringify(value, 0)
    ELSE StringOf(value)


\* The XML reader: a tag is what stands between a '<' and the next '>', a
\* text what stands between two tags.
LtAt(text) == {i \in 1..Len(text) : text[i] = "<"}

GtAt(text) == {i \in 1..Len(text) : text[i] = ">"}

\* Every '<' is closed by a '>' before the next '<'.
TagsAreClosed(text) ==
    /\ Cardinality(LtAt(text)) = Cardinality(GtAt(text))
    /\ \A k \in 1..Cardinality(LtAt(text)) :
         /\ Nth(LtAt(text), k) < Nth(GtAt(text), k)
         /\ k > 1 => Nth(GtAt(text), k - 1) < Nth(LtAt(text), k)

XmlTags(text) ==
    [k \in 1..Cardinality(LtAt(text)) |->
        SubSeq(text, Nth(LtAt(text), k) + 1, Nth(GtAt(text), k) - 1)]

\* The text after the k-th tag, up to the next tag.
XmlTexts(text) ==
    [k \in 1..(Cardinality(LtAt(text)) - 1) |->
        SubSeq(text, Nth(GtAt(text), k) + 1, Nth(LtAt(text), k + 1) - 1)]

\* The tags of items have an attribute or are /item; the prolog starts with ?.
IsItemTag(tag) ==
    \/ tag # <<>> /\ tag[1] = "i" /\ Includes(tag, "=")
    \/ tag = <<"/", "i", "t", "e", "m">>

IsKeyTag(tag) == ~IsItemTag(tag) /\ (tag = <<>> \/ tag[1] # "?")

\* The name of the element of a key: the key with every character outside
\* of [A-Za-z0-9_-] replaced by '_'.
TagOf(key) == [i \in 1..Len(key) |-> IF key[i] \in XmlNameChars THEN key[i] ELSE "_"]

RECURSIVE KeyTags(_)
\* The tags of the keys of a value, in document order: of each key of each
\* object its opening tag, the tags inside its value, its closing tag.
KeyTags(v) ==
    IF v.t = "obj"
    THEN Concat([n \in 1..Len(v.o) |->
                   <<TagOf(v.o[n].k)>> \o KeyTags(v.o[n].v) \o <<<<"/">> \o TagOf(v.o[n].k)>>])
    ELSE IF v.t = "arr" THEN Concat([i \in 1..Len(v.a) |-> KeyTags(v.a[i])])
    ELSE <<>>

RECURSIVE ItemTags(_)
\* The tags of the elements of the arrays of a value, in document order.
ItemTags(v) ==
    IF v.t = "arr"
    THEN Concat([i \in 1..Len(v.a) |->
                   <<<<"i", "t", "e", "m", SP, "i", "n", "d", "e", "x", "=", QUOTE>>
                     \o IntToDigits(i - 1) \o <<QUOTE>>>>
                   \o ItemTags(v.a[i]) \o <<<<"/", "i", "t", "e", "m">>>>])
    ELSE IF v.t = "obj" THEN Concat([n \in 1..Len(v.o) |-> ItemTags(v.o[n].v)])
    ELSE <<>>


\* What escapeXml is to make of one character.
Entity(c) ==
    CASE c = "&" -> <<"&", "a", "m", "p", ";">>
      [] c = "<" -> <<"&", "l", "t", ";">>
      [] c = ">" -> <<"&", "g", "t", ";">>
      [] c = QUOTE -> <<"&", "q", "u", "o", "t", ";">>
      [] c = "'" -> <<"&", "a", "p", "o", "s", ";">>
      [] OTHER -> <<c>>

\* A text with each of its characters escaped once.
EntityText(s) == Concat([i \in 1..Len(s) |-> Entity(s[i])])

\* No & < > " ' of a value stands in a text: every & starts an entity.
OnlyEntities(text) ==
    \A i \in 1..Len(text) :
        /\ text[i] \notin {"<", ">", QUOTE, "'"}
        /\ text[i] = "&" =>
             \E e \in {Entity(c) : c \in {"&", "<", ">", QUOTE, "'"}} :
                 /\ i + Len(e) - 1 <= Len(text)
                 /\ SubSeq(text, i, i + Len(e) - 1) = e

RECURSIVE XmlStream(_)
\* The tags and the scalars of a value in document order: a scalar stands
\* between the tags that enclose it.
XmlStream(v) ==
    IF v.t = "obj"
    THEN Concat([n \in 1..Len(v.o) |->
                   <<[tag |-> TRUE]>> \o XmlStream(v.o[n].v) \o <<[tag |-> TRUE]>>])
    ELSE IF v.t = "arr"
    THEN Concat([i \in 1..Len(v.a) |->
                   <<[tag |-> TRUE]>> \o XmlStream(v.a[i]) \o <<[tag |-> TRUE]>>])
    ELSE <<[tag |-> FALSE, scalar |-> v]>>

\* The number of tags among the first p entries of a stream.
TagsUpTo(stream, p) == Cardinality({q \in 1..p : stream[q].tag})


RECURSIVE YamlLines(_, _)
\* The lines of the block of a value at a nesting level, each with its level:
\* 'key:' or '-' alone before a nested block one level deeper, 'key: scalar'
\* or '- scalar' otherwise.
YamlLines(v, level) ==
    IF v.t = "arr"
    THEN Concat([i \in 1..Len(v.a) |->
                   IF v.a[i].t \in {"arr", "obj"}
                   THEN <<[level |-> level, text |-> <<"-">>]>> \o YamlLines(v.a[i], level + 1)
                   ELSE <<[level |-> level,
                           text |-> <<"-", SP>> \o formatYamlValue(v.a[i])]>>])
    ELSE IF v.t = "obj"
    THEN Concat([n \in 1..Len(v.o) |->
                   IF v.o[n].v.t \in {"arr", "obj"}
                   THEN <<[level |-> level, text |-> v.o[n].k \o <<":">>]>>
                        \o YamlLines(v.o[n].v, level + 1)
                   ELSE <<[level |-> level,
                           text |-> v.o[n].k \o <<":", SP>> \o formatYamlValue(v.o[n].v)]>>])
    ELSE <<[level |-> level, text |-> formatYamlValue(v)]>>

\* The text of lines, each after two spaces per level.
YamlText(lines) ==
    Concat([n \in 1..Len(lines) |->
              [j \in 1..(2 * lines[n].level) |-> SP] \o lines[n].text \o <<NL>>])


RECURSIVE KeysInText(_, _)
\* The keys of a JSON text from index i on, in the order of the text: the
\* string literals that a colon follows.
KeysInText(text, i) ==
    IF i > Len(text) THEN <<>>
    ELSE IF text[i] # QUOTE THEN KeysInText(text, i + 1)
    ELSE LET r == ScanString(text, i + 1, <<>>)
         IN  IF ~r.ok THEN <<>>
             ELSE IF SkipWs(text, r.i) <= Len(text) /\ text[SkipWs(text, r.i)] = ":"
             THEN <<r.v.s>> \o KeysInText(text, r.i)
             ELSE KeysInText(text, r.i)

\* The last value written for a key in an object of the text.
LastValue(node, key) ==
    node.m[Max({i \in 1..Len(node.m) : node.m[i].k = key})].v

RECURSIVE KeysEncountered(_)
\* The keys of a document in the order they are first encountered in the
\* text, each key of an object once, followed by the keys of its value.
KeysEncountered(node) ==
    IF node.d = "obj"
    THEN LET keys == FirstSeen(KeysAsWritten(node))
         IN  Concat([n \in 1..Len(keys) |->
                       <<keys[n]>> \o KeysEncountered(LastValue(node, keys[n]))])
    ELSE IF node.d = "arr" THEN Concat([i \in 1..Len(node.a) |-> KeysEncountered(node.a[i])])
    ELSE <<>>

RECURSIVE PrettyLines(_, _, _, _)
\* The lines of a value written at a nesting level, each with its level, the
\* first after prefix and the last before suffix: an element or member per
\* line, one level deeper than the brackets around them.
PrettyLines(v, level, prefix, suffix) ==
    IF v.t = "arr" /\ v.a # <<>>
    THEN <<[level |-> level, text |-> prefix \o <<"[">>]>>
         \o Concat([i \in 1..Len(v.a) |->
                      PrettyLines(v.a[i], level + 1, <<>>,
                                  IF i < Len(v.a) THEN <<",">> ELSE <<>>)])
         \o <<[level |-> level, text |-> <<"]">> \o suffix]>>
    ELSE IF v.t = "obj" /\ v.o # <<>>
    THEN <<[level |-> level, text |-> prefix \o <<"{">>]>>
         \o Concat([n \in 1..Len(v.o) |->
                      PrettyLines(v.o[n].v, level + 1, QuoteJson(v.o[n].k) \o <<":", SP>>,
                                  IF n < Len(v.o) THEN <<",">> ELSE <<>>)])
         \o <<[level |-> level, text |-> <<"}">> \o suffix]>>
    ELSE <<[level |-> level, text |-> prefix \o JSONstringify(v, 0) \o suffix]>>

\* The text of lines, each after spaces spaces per level.
PrettyText(lines, spaces) ==
    Join([n \in 1..Len(lines) |->
            [j \in 1..(spaces * lines[n].level) |-> SP] \o lines[n].text], <<NL>>)


(***************************************************************************)
(* The claims.                                                             *)
(***************************************************************************)

\* C1: for every valid JSON text, parsing what formatJson returns gives the
\* value that parsing the text gives.
FormatPreservesValue ==
    (op = "formatJson" /\ ParsedInput.ok) =>
        /\ result.error = ""
        /\ JSONparse(result.formatted).ok
        /\ JSONparse(result.formatted).v = ParsedInput.v

\* C2: for every valid JSON text, what minifyJson returns holds no white space
\* outside of string literals and parses to the value the text parses to.
MinifyCompactSameValue ==
    (op = "minifyJson" /\ ParsedInput.ok) =>
        /\ result.error = ""
        /\ NoWsOutside(result.formatted, 1, FALSE)
        /\ JSONparse(result.formatted).ok
        /\ JSONparse(result.formatted).v = ParsedInput.v

\* C3: validateJson on the empty text or on a text of white space only returns
\* valid = false and the error "Input is empty", without a parse and without
\* line or column.
EmptyInputIsInvalid ==
    (op = "validateJson" /\ \A i \in 1..Len(input) : input[i] \in Whitespace) =>
        /\ ~result.valid
        /\ result.error = "Input is empty"
        /\ result.parses = 0
        /\ ~result.hasPos

\* C3's case: a text of white space was validated.
EmptyInputWitness ==
    /\ op = "validateJson"
    /\ input = <<SP, NL>>
    /\ result.error = "Input is empty"

\* C4: when the parse fails and the parser's message reports offset p, line is
\* the number of newlines in input[0:p] plus one and column is p minus the
\* 0-based index of the last newline before p (p + 1 without one); of a text
\* cut short, they are the line and column of the end of the text.
ErrorLineAndColumn ==
    (op = "validateJson" /\ result.msgPos >= 0) =>
        LET p == result.msgPos
            nls == NewlinesBefore(input, p)
        IN  /\ ~result.valid
            /\ result.hasPos
            /\ p <= Len(input)
            /\ result.line = Cardinality(nls) + 1
            /\ result.column = IF nls = {} THEN p + 1 ELSE p - (Max(nls) - 1)
            /\ input \in TruncatedTexts => p = Len(input)

\* C4's case: {"a":1 was validated and the error is at line 1, column 7.
ErrorLineAndColumnWitness ==
    /\ op = "validateJson"
    /\ input = TruncatedText
    /\ result.msgPos = 6
    /\ result.line = 1
    /\ result.column = 7

\* C5: jsonToXml, jsonToCsv and jsonToYaml throw, and return no text, on a
\* text that does not parse.
ConvertersRejectUnparseable ==
    (op \in {"jsonToXml", "jsonToCsv", "jsonToYaml"} /\ ~ParsedInput.ok) =>
        /\ result.threw
        /\ result.error # ""
        /\ result.out = <<>>

\* C5's case: a converter was given a text cut short.
ConvertersRejectWitness ==
    /\ op = "jsonToYaml"
    /\ input = TruncatedText
    /\ result.threw

\* C6: for every parseable top-level value that is no array and no object
\* (a number, a string, a boolean, null) jsonToCsv throws "JSON must be an
\* object or array for CSV conversion".
CsvRejectsScalars ==
    (op = "jsonToCsv" /\ ParsedInput.ok /\ ParsedInput.v.t \notin {"arr", "obj"}) =>
        /\ result.threw
        /\ result.error = "JSON must be an object or array for CSV conversion"

\* C7: of an array, the header of jsonToCsv is the union of the keys of the
\* elements that are objects, each key once, in the order they are first seen
\* in the input text, and every data row holds one field per column.
CsvHeaderFirstSeenInText ==
    (op = "jsonToCsv" /\ doc.d = "arr" /\ Len(doc.a) > 0) =>
        LET recs == ReadCsv(result.out)
            columns == FirstSeen(Concat([i \in 1..Len(doc.a) |-> KeysAsWritten(doc.a[i])]))
        IN  /\ ~result.threw
            /\ Len(recs) = Len(doc.a) + 1
            /\ HoldsFields(recs[1], columns)
            /\ \A r \in 2..Len(recs) : OneFieldPerColumn(recs[r], columns)

\* C8: escapeCsv wraps a field in double quotes, each double quote of it
\* doubled, if and only if it holds a comma, a double quote or a newline, and
\* returns every other field unchanged; {a:1,b:"x,y"} gives the row 1,"x,y".
EscapeCsvQuotesIffSpecial ==
    /\ op = "escapeCsv" =>
         LET out == result.out
             quotes == {i \in 1..Len(input) : input[i] = QUOTE}
         IN  IF \E i \in 1..Len(input) : input[i] \in {",", QUOTE, NL}
             THEN /\ Len(out) = Len(input) + Cardinality(quotes) + 2
                  /\ out[1] = QUOTE
                  /\ out[Len(out)] = QUOTE
                  /\ ReadCsv(out) = <<<<input>>>>
             ELSE out = input
    /\ (op = "jsonToCsv"
        /\ doc = DObj(<<Member(<<"a">>, Num(<<"1">>)),
                        Member(<<"b">>, DStr(<<"x", ",", "y">>))>>)) =>
         result.out = <<"a", ",", "b", NL, "1", ",">> \o Q(<<"x", ",", "y">>)

\* C8's case: a field holding a comma was escaped.
EscapeCsvWitness ==
    /\ op = "escapeCsv"
    /\ input = <<"a", ",", "a">>
    /\ result.out = Q(<<"a", ",", "a">>)

CsvRowOfNonObject ==
    (op = "jsonToCsv" /\ ParsedInput.ok /\ ParsedInput.v.t = "arr") =>
        LET items == ParsedInput.v.a
            recs == ReadCsv(result.out)
        IN  /\ ~result.threw
            /\ Len(items) > 0 =>
                 /\ Len(recs) = Len(items) + 1
                 /\ \A r \in 1..Len(items) :
                      items[r].t # "obj" =>
                        recs[r + 1] = [c \in 1..Len(recs[1]) |-> <<>>]

\* C11's case: [{a:1,b:2},5] gives a,b / 1,2 / , and [5] is converted.
CsvRowOfNonObjectWitness ==
    /\ op = "jsonToCsv"
    /\ doc = DArr(<<DObj(<<Member(<<"a">>, Num(<<"1">>)), Member(<<"b">>, Num(<<"2">>))>>),
                    Num(<<"5">>)>>)
    /\ ~result.threw
    /\ result.out = <<"a", ",", "b", NL, "1", ",", "2", NL, ",">>

XmlItemPerElement ==
    (op = "jsonToXml" /\ ParsedInput.ok /\ ~result.threw) =>
        /\ TagsAreClosed(result.out)
        /\ SelectSeq(XmlTags(result.out), IsItemTag) = ItemTags(ParsedInput.v)

\* C14's case: {"a":[[1,{"b":null}],"x<"]}, an array inside an array inside an
\* object.
XmlItemPerElementWitness ==
    /\ op = "jsonToXml"
    /\ doc = DObj(<<Member(<<"a">>, DArr(<<DArr(<<Num(<<"1">>), DObj(<<Member(<<"b">>, NullLit)>>)>>),
                                          DStr(<<"x", "<">>)>>))>>)
    /\ Len(SelectSeq(XmlTags(result.out), IsItemTag)) = 8
    /\ SelectSeq(XmlTags(result.out), IsItemTag)[7]
         = <<"i", "t", "e", "m", SP, "i", "n", "d", "e", "x", "=", QUOTE, "1", QUOTE>>

\* C13: in jsonToXml the text content of every scalar is the string form of
\* the scalar with each of & < > " ' replaced by its entity, each character
\* escaped once, and no unescaped & < > " ' of a value stands in the output.
\* The white space of the layout around a content is left aside.
XmlScalarContentEscaped ==
    (op = "jsonToXml" /\ ParsedInput.ok /\ ~result.threw) =>
        LET stream == XmlStream(ParsedInput.v)
            texts == XmlTexts(result.out)
        IN  /\ TagsAreClosed(result.out)
            /\ Len(texts) = TagsUpTo(stream, Len(stream)) + 2
            /\ \A p \in 1..Len(stream) :
                 ~stream[p].tag =>
                   LET content == texts[TagsUpTo(stream, p) + 2]
                   IN  /\ OnlyEntities(content)
                       /\ Trim(content) = Trim(EntityText(StringOf(stream[p].scalar)))

\* C15: jsonToYaml writes block style with two spaces of indent per nesting
\* level: a key with an object or array as value is 'key:' alone on its line
\* with the block of the value one level deeper, any other key 'key: scalar';
\* an element that is an object or array is '-' alone on its line with its
\* block one level deeper, any other element '- scalar'.
\* {a:[1,2],b:{c:3}} gives a: / '  - 1' / '  - 2' / b: / '  c: 3'.
YamlBlockStyle ==
    (op = "jsonToYaml" /\ ParsedInput.ok /\ ~result.threw) =>
        /\ result.out = YamlText(YamlLines(ParsedInput.v, 0))
        /\ doc = DObj(<<Member(<<"a">>, DArr(<<Num(<<"1">>), Num(<<"2">>)>>)),
                        Member(<<"b">>, DObj(<<Member(<<"c">>, Num(<<"3">>))>>))>>) =>
             result.out = <<"a", ":", NL, SP, SP, "-", SP, "1", NL, SP, SP, "-", SP, "2", NL,
                            "b", ":", NL, SP, SP, "c", ":", SP, "3", NL>>

\* C15's case: [["a:b",false],{"a":{"b":[1.5]}}], blocks three levels deep.
YamlBlockStyleWitness ==
    /\ op = "jsonToYaml"
    /\ doc = DArr(<<DArr(<<DStr(<<"a", ":", "b">>), FalseLit>>),
                    DObj(<<Member(<<"a">>, DObj(<<Member(<<"b">>, DArr(<<Num(<<"1", ".", "5">>)>>))>>))>>)>>)
    /\ result.out = <<"-", NL, SP, SP, "-", SP, QUOTE, "a", ":", "b", QUOTE, NL,
                      SP, SP, "-", SP, "f", "a", "l", "s", "e", NL,
                      "-", NL, SP, SP, "a", ":", NL, SP, SP, SP, SP, "b", ":", NL,
                      SP, SP, SP, SP, SP, SP, "-", SP, "1", ".", "5", NL>>

FormatKeepsKeyOrder ==
    (op = "formatJson" /\ ParsedInput.ok) =>
        /\ result.error = ""
        /\ result.formatted = PrettyText(PrettyLines(ParsedInput.v, 0, <<>>, <<>>), 2)
        /\ doc # NoDoc => KeysInText(result.formatted, 1) = KeysEncountered(doc)

\* C18: when validateJson fails to parse and the parser's message reports no
\* character offset, the result holds no line and no column: only valid =
\* false and the error message.
NoOffsetNoLineColumn ==
    (op = "validateJson" /\ result.parses = 1 /\ ~result.valid /\ result.msgPos < 0) =>
        /\ result.error # ""
        /\ ~result.hasPos
        /\ result.line = 0
        /\ result.column = 0

\* C19: every error a converter raises while getOutputContent computes the
\* output of the active tab is caught there and turned into one message
\* string; a failed conversion gives no converted output, never a part of one,
\* and the input text and the active tab stay as they are: what the output
\* editor shows is the outcome for the current input and tab.
ConversionErrorsCaught ==
    /\ viewer \in Seq(STRING)
    /\ (activeTab \in {"xml", "csv", "yaml"} /\ ~Falsy(parseJson(inputJson))) =>
         LET parsed == parseJson(inputJson)
             outcome == CASE activeTab = "xml" -> jsonToXml(parsed)
                          [] activeTab = "csv" -> jsonToCsv(parsed)
                          [] activeTab = "yaml" -> jsonToYaml(parsed)
         IN  IF outcome.threw
             THEN /\ outcome.out = <<>>
                  /\ viewer = <<"E", "r", "r", "o", "r", ":", SP>> \o MessageText(outcome.error)
             ELSE viewer = outcome.out

\* C19's case: the csv tab with the input 5 shows the message of jsonToCsv.
ConversionErrorsCaughtWitness ==
    /\ activeTab = "csv"
    /\ inputJson = <<"5">>
    /\ viewer = <<"E", "r", "r", "o", "r", ":", SP>>
                \o MessageText("JSON must be an object or array for CSV conversion")

\* C20: every download takes its file extension from the active tab: xml for
\* xml, csv for csv, yaml for yaml, json for formatted and for tree, whatever
\* tab changes, Format and Minify came before.
DownloadExtensionOfTab ==
    [][download' # download =>
         /\ download'.called
         /\ download'.name = "formatted"
         /\ download'.extension =
              (CASE activeTab = "xml" -> "xml"
                 [] activeTab = "csv" -> "csv"
                 [] activeTab = "yaml" -> "yaml"
                 [] activeTab \in {"formatted", "tree"} -> "json")]_vars

\* C20's case: a download on the yaml tab after a Format and a tab change.
DownloadExtensionWitness ==
    /\ download.called
    /\ download.extension = "yaml"
    /\ activeTab = "yaml"
    /\ outputJson # <<>>

\* C22: jsonToXml and jsonToYaml fail only for a text that does not parse:
\* for every text that parses, the scalars 0, false, "" and null included,
\* they return a conversion of the value and do not throw.
XmlYamlConvertEveryValue ==
    (op \in {"jsonToXml", "jsonToYaml"} /\ ParsedInput.ok) =>
        /\ ~result.threw
        /\ result.error = ""

\* C23: when the input text parses, the xml and yaml tabs show the conversion
\* of the value the text denotes, parsed once; a JSON string literal is
\* converted as a string and is not parsed again by the converter.
TabsConvertTheParsedValue ==
    (activeTab \in {"xml", "yaml"} /\ JSONparse(inputJson).ok) =>
        viewer = IF activeTab = "xml"
                 THEN XmlOf(JSONparse(inputJson).v).out
                 ELSE YamlOf(JSONparse(inputJson).v).out

\* C24: on the formatted tab the viewer shows a serialization of the value of
\* the current input text, or nothing when the input does not parse; an
\* output of an earlier Format or Minify is not shown for a changed input.
FormattedTabShowsCurrentInput ==
    activeTab = "formatted" =>
        IF JSONparse(inputJson).ok
        THEN /\ JSONparse(viewer).ok
             /\ JSONparse(viewer).v = JSONparse(inputJson).v
        ELSE viewer = <<>>

\* C26: after any sequence of minimize toggles and clicks on the label of a
\* minimized panel, from both panels expanded, the input panel and the output
\* panel are never minimized together.
NeverBothMinimized == ~(isInputMinimized /\ isOutputMinimized)

\* A toggle has minimized the output panel, and the input panel is expanded.
NeverBothMinimizedWitness == isOutputMinimized /\ ~isInputMinimized

\* C27: a notification stays until its own timer fires unless a later
\* notification replaces it: the timer of an earlier notification does not
\* clear the message of a later one.  The timers have the same delay and fire
\* in the order they were started, and the message shown is that of the
\* latest showNotification: while more than one timer is pending, the timer
\* that fires is not the one of the message shown.
EarlierTimerKeepsLaterMessage ==
    [][(timers > 1 /\ timers' = timers - 1) => notification' = notification]_vars

Failing(i) ==
    /\ i \in Pending
    /\ fetches'[i].state = "failed"

\* C21: when a load from a URL fails (the fetch rejects, the status is not
\* 2xx, or the body is not JSON), handleLoadUrl shows one failure message,
\* makes no further request and leaves the input text as it was.
LoadFailureReportedOnce ==
    [][(\E i \in 1..Len(fetches) : Failing(i)) =>
          /\ notification' \in FailureMessages
          /\ timers' = timers + 1
          /\ Len(fetches') = Len(fetches)
          /\ \A j \in 1..Len(fetches) : fetches'[j].url = fetches[j].url
          /\ inputJson' = inputJson
          /\ viewer' = viewer]_vars

\* A load has failed with a status that is not ok, after an earlier load had
\* filled the input.
LoadFailureWitness ==
    /\ Len(fetches) = 2
    /\ fetches[1].state = "loaded"
    /\ fetches[2].state = "failed"
    /\ inputJson # <<>>
    /\ notification = "Failed to load: HTTP 404: Not Found"

\* C28: when handleLoadUrl is called twice before either fetch has ended and
\* both succeed, the input text ends up as the body of the URL requested
\* last, in whichever order the two responses arrive.
LastRequestedUrlWins ==
    ( /\ Len(fetches) = 2
      /\ fetches[2].inFlight = 1
      /\ fetches[1].state = "loaded"
      /\ fetches[2].state = "loaded" ) =>
        inputJson = JSONstringify(JSONparse(BodyOf(fetches[2].url)).v, 2)

\* C25: the text handed to the download helper and to the clipboard helper
\* is the text the read-only output viewer shows for the active tab (the
\* tree tab, which has no viewer, apart).
ExportedTextIsShownText ==
    [][(activeTab # "tree" /\ timers' = timers + 1) =>
          /\ notification' = "Downloaded!" => download'.content = viewer
          /\ notification' \in {"Copied to clipboard!", "Failed to copy!"} =>
                clipboard'.content = viewer]_vars

====
